---- MODULE Spec2Model ----
(***************************************************************************)
(* SelfBackendVerifier (sdk/core/src/SelfBackendVerifier.ts) as a state    *)
(* machine.                                                                *)
(*                                                                         *)
(* self      the fields of one SelfBackendVerifier instance (`this`)       *)
(* last      for each setter, its most recent call: argument and whether   *)
(*           the call threw                                                *)
(* calls     the verify() invocations: each slot holds one asynchronous    *)
(*           invocation, its arguments, its locals, the external calls it  *)
(*           made, and how it settled                                      *)
(* registry  the identity registry contract's state (current root)         *)
(*                                                                         *)
(* JavaScript runs each synchronous stretch of code to completion, so a    *)
(* setter is one step and verify() is four: entry up to the first await,   *)
(* and one step per awaited reply.  Setters and other verify() calls may   *)
(* run between any two of them.                                            *)
(***************************************************************************)
EXTENDS Integers, Sequences, FiniteSets, TLC

VARIABLES self, last, calls, registry

vars == <<self, last, calls, registry>>

(***************************************************************************)
(* Bounds of the model.                                                    *)
(***************************************************************************)
\* roots the registry goes through while the model runs
MaxRoot == 2
\* exclusion lists of every length up to this one are tried, besides the
\* lists around the limit of 40
MaxShortList == 1
\* decimal strings of 0..MaxFieldElement are the numeric public signals
MaxFieldElement == 9
\* verify() invocations that may run at the same time on the one instance
MaxCalls == 2

(***************************************************************************)
(* Program constants.                                                      *)
(***************************************************************************)
\* protected attestationId: number = 1
DefaultAttestationId == 1
\* if (age > 100) throw
MaxAge == 100
\* if (countries.length > 40) throw
MaxExcluded == 40

(***************************************************************************)
(* Strings.  Number.prototype.toString() of an integer: its decimal        *)
(* digits, with a leading minus sign for a negative one.                   *)
(***************************************************************************)
Digits == <<"0", "1", "2", "3", "4", "5", "6", "7", "8", "9">>

RECURSIVE toString(_)
toString(n) ==
  IF n < 0 THEN "-" \o toString(0 - n)
  ELSE IF n < 10 THEN Digits[n + 1]
  ELSE toString(n \div 10) \o Digits[(n % 10) + 1]

(***************************************************************************)
(* Numbers.  `age: number` is a double: an integer, a fraction, or NaN.    *)
(* A number is kept as num/den, NaN as 0/0.  Every comparison with NaN is  *)
(* false; toString() of an integer is its digits, of n + 1/2 the digits    *)
(* of n followed by ".5", of NaN "NaN".                                    *)
(***************************************************************************)
Number(n) == [num |-> n, den |-> 1]

Half(n) == [num |-> n, den |-> 2]

NaN == [num |-> 0, den |-> 0]

IsInteger(x) == x.den = 1

IsNaN(x) == x.den = 0

\* x <= y
LessOrEqual(x, y) == ~IsNaN(x) /\ ~IsNaN(y) /\ x.num * y.den <= y.num * x.den

\* x > y
Greater(x, y) == ~IsNaN(x) /\ ~IsNaN(y) /\ x.num * y.den > y.num * x.den

\* x.toString(), for x an integer, NaN, or a positive odd number of halves
NumberToString(x) ==
  IF IsNaN(x) THEN "NaN"
  ELSE IF IsInteger(x) THEN toString(x.num)
  ELSE toString(x.num \div 2) \o ".5"

\* BigInt(s) of a public signal: the value of a decimal string, a SyntaxError
\* for anything else.
BigInt(s) ==
  IF \E n \in 0..MaxFieldElement : toString(n) = s
  THEN [ok |-> TRUE, value |-> CHOOSE n \in 0..MaxFieldElement : toString(n) = s]
  ELSE [ok |-> FALSE, value |-> 0]

\* castToUserIdentifier(id, type): the identifier in the encoding `type`.
castToUserIdentifier(id, type) == type \o ":" \o toString(id)

\* hashEndpointWithScope(endpoint, scope)
hashEndpointWithScope(endpoint, scope) == "H(" \o endpoint \o "|" \o scope \o ")"

(***************************************************************************)
(* packForbiddenCountriesList: the codes laid end to end, three characters *)
(* each, in the order given; it throws on a code that is not three         *)
(* characters long.  UnpackCountries reads such a packing back.            *)
(***************************************************************************)
RECURSIVE Concat(_)
Concat(L) == IF L = <<>> THEN "" ELSE Head(L) \o Concat(Tail(L))

packForbiddenCountriesList(countries) ==
  IF \E i \in 1..Len(countries) : Len(countries[i]) # 3
  THEN [ok |-> FALSE, value |-> ""]
  ELSE [ok |-> TRUE, value |-> Concat(countries)]

UnpackCountries(packed) ==
  [i \in 1..(Len(packed) \div 3) |-> SubSeq(packed, 3 * i - 2, 3 * i)]

(***************************************************************************)
(* revealedDataTypes: the identifiers of the disclosed fields.             *)
(***************************************************************************)
revealedDataTypes ==
  [issuing_state     |-> "issuing_state",
   name              |-> "name",
   passport_number   |-> "passport_number",
   nationality       |-> "nationality",
   date_of_birth     |-> "date_of_birth",
   gender            |-> "gender",
   expiry_date       |-> "expiry_date",
   older_than        |-> "older_than",
   passport_no_ofac  |-> "passport_no_ofac",
   name_and_dob_ofac |-> "name_and_dob_ofac",
   name_and_yob_ofac |-> "name_and_yob_ofac"]

(***************************************************************************)
(* The instance after construction (field initialisers and constructor).   *)
(***************************************************************************)
SelfBackendVerifier(scope, endpoint, user_identifier_type) ==
  [scope                |-> hashEndpointWithScope(endpoint, scope),
   attestationId        |-> DefaultAttestationId,
   user_identifier_type |-> user_identifier_type,
   targetRootTimestamp  |-> [enabled |-> FALSE, value |-> 0],
   nationality          |-> [enabled |-> FALSE, value |-> ""],
   minimumAge           |-> [enabled |-> FALSE, value |-> "18"],
   excludedCountries    |-> [enabled |-> FALSE, value |-> <<>>],
   passportNoOfac       |-> FALSE,
   nameAndDobOfac       |-> FALSE,
   nameAndYobOfac       |-> FALSE]

(***************************************************************************)
(* The setters, as functions of the instance: the instance after the call  *)
(* and whether the call threw.                                             *)
(***************************************************************************)
Return(this) == [this |-> this, threw |-> FALSE]
Throw(this)  == [this |-> this, threw |-> TRUE]

\* a slip: an age that is refused switches the age check off
setMinimumAge_DisablesOnError(this, age) ==
  IF LessOrEqual(age, Number(0)) \/ Greater(age, Number(MaxAge))
  THEN Throw([this EXCEPT !.minimumAge.enabled = FALSE])
  ELSE Return([this EXCEPT !.minimumAge =
                 [enabled |-> TRUE, value |-> NumberToString(age)]])

\* a slip: `age < 0` for `age <= 0`
setMinimumAge_AcceptsZero(this, age) ==
  IF Greater(Number(0), age) THEN Throw(this)
  ELSE IF Greater(age, Number(MaxAge)) THEN Throw(this)
  ELSE Return([this EXCEPT !.minimumAge =
                 [enabled |-> TRUE, value |-> NumberToString(age)]])

setMinimumAge(this, age) ==
  IF LessOrEqual(age, Number(0)) THEN Throw(this)
  ELSE IF Greater(age, Number(MaxAge)) THEN Throw(this)
  ELSE Return([this EXCEPT !.minimumAge =
                 [enabled |-> TRUE, value |-> NumberToString(age)]])

\* a slip: setting the nationality starts the exclusion list afresh
setNationality_ClearsExclusions(this, country) ==
  Return([this EXCEPT !.nationality = [enabled |-> TRUE, value |-> country],
                      !.excludedCountries = [enabled |-> FALSE, value |-> <<>>]])

setNationality(this, country) ==
  Return([this EXCEPT !.nationality = [enabled |-> TRUE, value |-> country]])

\* a slip: the first 40 codes are stored before the call is refused
excludeCountries_TruncatesOnError(this, countries) ==
  IF Len(countries) > MaxExcluded
  THEN Throw([this EXCEPT !.excludedCountries =
                [enabled |-> TRUE, value |-> SubSeq(countries, 1, MaxExcluded)]])
  ELSE Return([this EXCEPT !.excludedCountries = [enabled |-> TRUE, value |-> countries]])

\* a slip: the new codes are added to the stored list
excludeCountries_Merges(this, countries) ==
  IF Len(countries) > MaxExcluded THEN Throw(this)
  ELSE Return([this EXCEPT !.excludedCountries =
                 [enabled |-> TRUE, value |-> this.excludedCountries.value \o countries]])

excludeCountries(this, countries) ==
  IF Len(countries) > MaxExcluded THEN Throw(this)
  ELSE Return([this EXCEPT !.excludedCountries = [enabled |-> TRUE, value |-> countries]])

\* a slip: the flag is flipped instead of set
enablePassportNoOfacCheck_Toggles(this) ==
  Return([this EXCEPT !.passportNoOfac = ~this.passportNoOfac])

enablePassportNoOfacCheck(this) == Return([this EXCEPT !.passportNoOfac = TRUE])

enableNameAndDobOfacCheck(this) == Return([this EXCEPT !.nameAndDobOfac = TRUE])

enableNameAndYobOfacCheck(this) == Return([this EXCEPT !.nameAndYobOfac = TRUE])

(***************************************************************************)
(* verify(): the code between two awaits, as functions of the instance     *)
(* and of the invocation's arguments and locals.                           *)
(***************************************************************************)
\* a slip: the rows of b are exchanged instead of the entries of each row
HubProof_SwapsRows(this, proof, publicSignals, forbiddenCountriesListPacked) ==
  [olderThanEnabled             |-> this.minimumAge.enabled,
   olderThan                    |-> this.minimumAge.value,
   forbiddenCountriesEnabled    |-> this.excludedCountries.enabled,
   forbiddenCountriesListPacked |-> forbiddenCountriesListPacked,
   ofacEnabled  |-> <<this.passportNoOfac, this.nameAndDobOfac, this.nameAndYobOfac>>,
   vcAndDiscloseProof |->
     [a |-> proof.a,
      b |-> << <<proof.b[2][1], proof.b[2][2]>>, <<proof.b[1][1], proof.b[1][2]>> >>,
      c |-> proof.c,
      pubSignals |-> publicSignals]]

\* const vcAndDiscloseHubProof = { ... }
HubProof(this, proof, publicSignals, forbiddenCountriesListPacked) ==
  [olderThanEnabled             |-> this.minimumAge.enabled,
   olderThan                    |-> this.minimumAge.value,
   forbiddenCountriesEnabled    |-> this.excludedCountries.enabled,
   forbiddenCountriesListPacked |-> forbiddenCountriesListPacked,
   ofacEnabled  |-> <<this.passportNoOfac, this.nameAndDobOfac, this.nameAndYobOfac>>,
   vcAndDiscloseProof |->
     [a |-> proof.a,
      b |-> << <<proof.b[1][2], proof.b[1][1]>>, <<proof.b[2][2], proof.b[2][1]>> >>,
      c |-> proof.c,
      pubSignals |-> publicSignals]]

\* const types = [ ... ]; if (...) types.push(...)
PushIf(cond, list, type) == IF cond THEN Append(list, type) ELSE list

\* a slip: the age block moved below the first OFAC block
Types_AgeAfterOfac(this) ==
  LET t0 == <<revealedDataTypes.issuing_state,
              revealedDataTypes.name,
              revealedDataTypes.passport_number,
              revealedDataTypes.nationality,
              revealedDataTypes.date_of_birth,
              revealedDataTypes.gender,
              revealedDataTypes.expiry_date>>
      t1 == PushIf(this.passportNoOfac, t0, revealedDataTypes.passport_no_ofac)
      t2 == PushIf(this.minimumAge.enabled, t1, revealedDataTypes.older_than)
      t3 == PushIf(this.nameAndDobOfac, t2, revealedDataTypes.name_and_dob_ofac)
  IN  PushIf(this.nameAndYobOfac, t3, revealedDataTypes.name_and_yob_ofac)

Types(this) ==
  LET t0 == <<revealedDataTypes.issuing_state,
              revealedDataTypes.name,
              revealedDataTypes.passport_number,
              revealedDataTypes.nationality,
              revealedDataTypes.date_of_birth,
              revealedDataTypes.gender,
              revealedDataTypes.expiry_date>>
      t1 == PushIf(this.minimumAge.enabled, t0, revealedDataTypes.older_than)
      t2 == PushIf(this.passportNoOfac, t1, revealedDataTypes.passport_no_ofac)
      t3 == PushIf(this.nameAndDobOfac, t2, revealedDataTypes.name_and_dob_ofac)
  IN  PushIf(this.nameAndYobOfac, t3, revealedDataTypes.name_and_yob_ofac)

\* the record with no field: credentialSubject: {}
EmptyObject == [f \in {} |-> ""]

\* a slip: the failed result names the scope of the public signals
CaughtResult_ScopeOfSignals(this, call, error) ==
  [isValid |-> FALSE,
   isValidDetails |->
     [isValidScope         |-> FALSE,
      isValidAttestationId |-> FALSE,
      isValidProof         |-> FALSE,
      isValidNationality   |-> FALSE],
   userId            |-> call.user_identifier,
   application       |-> call.publicSignals.scope,
   nullifier         |-> call.publicSignals.nullifier,
   credentialSubject |-> EmptyObject,
   proof |-> [value |-> [proof |-> call.proof, publicSignals |-> call.publicSignals]],
   error |-> error]

\* a slip: the catch branch reports the two checks made before the call
CaughtResult_KeepsLocalChecks(this, call, error) ==
  [isValid |-> FALSE,
   isValidDetails |->
     [isValidScope         |-> call.isValidScope,
      isValidAttestationId |-> call.isValidAttestationId,
      isValidProof         |-> FALSE,
      isValidNationality   |-> FALSE],
   userId            |-> call.user_identifier,
   application       |-> this.scope,
   nullifier         |-> call.publicSignals.nullifier,
   credentialSubject |-> EmptyObject,
   proof |-> [value |-> [proof |-> call.proof, publicSignals |-> call.publicSignals]],
   error |-> error]

\* the `catch (error)` branch
CaughtResult(this, call, error) ==
  [isValid |-> FALSE,
   isValidDetails |->
     [isValidScope         |-> FALSE,
      isValidAttestationId |-> FALSE,
      isValidProof         |-> FALSE,
      isValidNationality   |-> FALSE],
   userId            |-> call.user_identifier,
   application       |-> this.scope,
   nullifier         |-> call.publicSignals.nullifier,
   credentialSubject |-> EmptyObject,
   proof |-> [value |-> [proof |-> call.proof, publicSignals |-> call.publicSignals]],
   error |-> error]

\* a slip: the comparison is made whether or not the check is enabled
IsValidNationality_Always(this, result) ==
  result[1][revealedDataTypes.nationality] = this.nationality.value

\* let isValidNationality = true; if (this.nationality.enabled) { ... }
IsValidNationality(this, result) ==
  IF this.nationality.enabled
  THEN result[1][revealedDataTypes.nationality] = this.nationality.value
  ELSE TRUE

\* const credentialSubject = { ... }
CredentialSubject(this, call, result, now) ==
  [merkle_root       |-> call.publicSignals.merkle_root,
   attestation_id    |-> toString(this.attestationId),
   current_date      |-> now,
   issuing_state     |-> result[1][revealedDataTypes.issuing_state],
   name              |-> result[1][revealedDataTypes.name],
   passport_number   |-> result[1][revealedDataTypes.passport_number],
   nationality       |-> result[1][revealedDataTypes.nationality],
   date_of_birth     |-> result[1][revealedDataTypes.date_of_birth],
   gender            |-> result[1][revealedDataTypes.gender],
   expiry_date       |-> result[1][revealedDataTypes.expiry_date],
   older_than        |-> toString(result[1][revealedDataTypes.older_than]),
   passport_no_ofac  |-> toString(result[1][revealedDataTypes.passport_no_ofac]) = "1",
   name_and_dob_ofac |-> toString(result[1][revealedDataTypes.name_and_dob_ofac]) = "1",
   name_and_yob_ofac |-> toString(result[1][revealedDataTypes.name_and_yob_ofac]) = "1"]

\* a slip: no credential subject for a proof verifyAll found invalid
Attestation_EmptyWhenInvalid(this, call, result, now) ==
  LET isValidNationality == IsValidNationality(this, result) IN
  [isValid |-> result[2] /\ call.isValidScope /\ call.isValidAttestationId
                 /\ isValidNationality,
   isValidDetails |->
     [isValidScope         |-> call.isValidScope,
      isValidAttestationId |-> call.isValidAttestationId,
      isValidProof         |-> result[2],
      isValidNationality   |-> isValidNationality],
   userId            |-> call.user_identifier,
   application       |-> this.scope,
   nullifier         |-> call.publicSignals.nullifier,
   credentialSubject |-> IF result[2] THEN CredentialSubject(this, call, result, now)
                         ELSE EmptyObject,
   proof |-> [value |-> [proof |-> call.proof, publicSignals |-> call.publicSignals]],
   error |-> result[3]]

\* a slip: isValidScope left out of the conjunction
Attestation_WithoutScope(this, call, result, now) ==
  LET isValidNationality == IsValidNationality(this, result) IN
  [isValid |-> result[2] /\ call.isValidAttestationId /\ isValidNationality,
   isValidDetails |->
     [isValidScope         |-> call.isValidScope,
      isValidAttestationId |-> call.isValidAttestationId,
      isValidProof         |-> result[2],
      isValidNationality   |-> isValidNationality],
   userId            |-> call.user_identifier,
   application       |-> this.scope,
   nullifier         |-> call.publicSignals.nullifier,
   credentialSubject |-> CredentialSubject(this, call, result, now),
   proof |-> [value |-> [proof |-> call.proof, publicSignals |-> call.publicSignals]],
   error |-> result[3]]

\* const attestation: SelfVerificationResult = { ... }
Attestation(this, call, result, now) ==
  LET isValidNationality == IsValidNationality(this, result) IN
  [isValid |-> result[2] /\ call.isValidScope /\ call.isValidAttestationId
                 /\ isValidNationality,
   isValidDetails |->
     [isValidScope         |-> call.isValidScope,
      isValidAttestationId |-> call.isValidAttestationId,
      isValidProof         |-> result[2],
      isValidNationality   |-> isValidNationality],
   userId            |-> call.user_identifier,
   application       |-> this.scope,
   nullifier         |-> call.publicSignals.nullifier,
   credentialSubject |-> CredentialSubject(this, call, result, now),
   proof |-> [value |-> [proof |-> call.proof, publicSignals |-> call.publicSignals]],
   error |-> result[3]]

(***************************************************************************)
(* The registry contract: a current root, and for every root it has had    *)
(* the time it was set.                                                    *)
(***************************************************************************)
RegistryAt(root) == [root |-> root, rootTimestamps |-> [r \in 1..root |-> 1000 + r]]

(***************************************************************************)
(* Inputs.  A universe names the arguments the callers pass and the        *)
(* replies the contracts give.                                             *)
(***************************************************************************)
TheScope == "my-app"
TheEndpoint == "https://example.org/api"

\* the integers around the limits, one half, and NaN
Ages ==
  {Number(n) : n \in {0 - 5, 0, 1, MaxAge, MaxAge + 1}} \cup {Half(1), NaN}

Codes == {"FRA", "USA"}

\* n codes, FRA and USA in turn
LongList(n) == [i \in 1..n |-> IF i % 2 = 1 THEN "FRA" ELSE "USA"]

CountryLists ==
  UNION {[1..n -> Codes] : n \in 0..MaxShortList}
    \cup {<<"FRA", "FR">>, LongList(MaxExcluded), LongList(MaxExcluded + 1)}

Proofs == {[a |-> <<1, 2>>, b |-> << <<3, 4>>, <<5, 6>> >>, c |-> <<7, 8>>]}

Signals(scope, attestation_id, user_identifier) ==
  [scope           |-> scope,
   attestation_id  |-> attestation_id,
   merkle_root     |-> "4242",
   nullifier       |-> "9001",
   user_identifier |-> user_identifier]

GoodSignals == Signals(hashEndpointWithScope(TheEndpoint, TheScope), "1", "7")

PublicSignals ==
  {GoodSignals,
   Signals(hashEndpointWithScope(TheEndpoint, "other-app"), "1", "7"),
   Signals(hashEndpointWithScope(TheEndpoint, TheScope), "01", "7"),
   Signals(hashEndpointWithScope(TheEndpoint, TheScope), "1", "seven")}

\* what verifyAll returns: [readable data, structural validity, error]
Disclosed(nationality, n) ==
  [issuing_state     |-> nationality,
   name              |-> IF n = 0 THEN "" ELSE "ANNA DOE",
   passport_number   |-> IF n = 0 THEN "" ELSE "X1234567",
   nationality       |-> nationality,
   date_of_birth     |-> IF n = 0 THEN "" ELSE "90-01-01",
   gender            |-> IF n = 0 THEN "" ELSE "F",
   expiry_date       |-> IF n = 0 THEN "" ELSE "30-01-01",
   older_than        |-> 18 * n,
   passport_no_ofac  |-> n,
   name_and_dob_ofac |-> 0,
   name_and_yob_ofac |-> n]

Returned(nationality, valid) ==
  [status |-> "ok",
   value  |-> IF valid THEN <<Disclosed(nationality, 1), TRUE, "">>
              ELSE <<Disclosed(nationality, 0), FALSE, "INVALID_PROOF">>]

Thrown == [status |-> "error", error |-> "CALL_EXCEPTION"]

VerifierReplies ==
  {Thrown, Returned("FRA", TRUE), Returned("USA", TRUE), Returned("FRA", FALSE),
   Returned("", FALSE)}

Dates == {"2025-06-01T00:00:00.000Z"}

\* the least universe in which every operation runs and every call can fail
Small ==
  [Slots           |-> {1},
   Ages            |-> {Number(18)},
   Nationalities   |-> {"FRA"},
   CountryLists    |-> {<<"FRA">>},
   Proofs          |-> Proofs,
   PublicSignals   |-> {GoodSignals},
   RootReplies     |-> BOOLEAN,
   TimestampReplies |-> BOOLEAN,
   VerifierReplies |-> {Thrown, Returned("FRA", TRUE)}]

(***************************************************************************)
(* Initial state: new SelfBackendVerifier(scope, endpoint), no setter      *)
(* called, no verify() running.                                            *)
(***************************************************************************)
Setters ==
  {"setMinimumAge", "setNationality", "excludeCountries", "enablePassportNoOfacCheck",
   "enableNameAndDobOfacCheck", "enableNameAndYobOfacCheck"}

NotCalled == [called |-> FALSE]

Idle == [pc |-> "idle"]

Init ==
  /\ self = SelfBackendVerifier(TheScope, TheEndpoint, "uuid")
  /\ last = [s \in Setters |-> NotCalled]
  /\ calls = [c \in 1..MaxCalls |-> Idle]
  /\ registry = RegistryAt(1)

(***************************************************************************)
(* A setter call: one synchronous step.                                    *)
(***************************************************************************)
Called(setter, arg, r) ==
  /\ self' = r.this
  /\ last' = [last EXCEPT ![setter] = [called |-> TRUE, arg |-> arg, threw |-> r.threw]]
  /\ UNCHANGED <<calls, registry>>

CallSetMinimumAge(age) == Called("setMinimumAge", age, setMinimumAge(self, age))

CallSetNationality(country) ==
  Called("setNationality", country, setNationality(self, country))

CallExcludeCountries(countries) ==
  Called("excludeCountries", countries, excludeCountries(self, countries))

CallEnablePassportNoOfacCheck ==
  Called("enablePassportNoOfacCheck", <<>>, enablePassportNoOfacCheck(self))

CallEnableNameAndDobOfacCheck ==
  Called("enableNameAndDobOfacCheck", <<>>, enableNameAndDobOfacCheck(self))

CallEnableNameAndYobOfacCheck ==
  Called("enableNameAndYobOfacCheck", <<>>, enableNameAndYobOfacCheck(self))

(***************************************************************************)
(* verify(proof, publicSignals) in slot c.                                 *)
(***************************************************************************)
Settled == {"idle", "returned", "rejected"}

\* a contract call and its reply, as the invocation's log keeps them
Pending(fn, args) == [fn |-> fn, args |-> args, reply |-> [status |-> "pending"]]

Ok(value) == [status |-> "ok", value |-> value]

Failed(error) == [status |-> "error", error |-> error]

Answer(log, reply) == [log EXCEPT ![Len(log)].reply = reply]

\* a slip: the try block widened to the whole body, every failure a failed result
Rejected_AsResult(call, log, error) ==
  [pc |-> "returned", proof |-> call.proof, publicSignals |-> call.publicSignals,
   entry |-> call.entry, log |-> log,
   result |-> [isValid |-> FALSE, credentialSubject |-> EmptyObject, error |-> error]]

\* an exception leaves verify(): the promise is rejected with it
Rejected(call, log, error) ==
  [pc |-> "rejected", proof |-> call.proof, publicSignals |-> call.publicSignals,
   entry |-> call.entry, log |-> log, error |-> error]

\* entry to `await this.registryContract.getIdentityCommitmentMerkleRoot()`
VerifyEnter(c, proof, publicSignals) ==
  /\ calls[c].pc \in Settled
  /\ LET packed == packForbiddenCountriesList(self.excludedCountries.value)
         args   == [proof |-> proof, publicSignals |-> publicSignals, entry |-> self]
     IN calls' = [calls EXCEPT ![c] =
          IF ~packed.ok THEN Rejected(args, <<>>, "Invalid country code")
          ELSE [pc |-> "awaitRoot",
                proof |-> proof,
                publicSignals |-> publicSignals,
                entry |-> self,
                isValidScope |-> (self.scope = publicSignals.scope),
                isValidAttestationId |->
                  (toString(self.attestationId) = publicSignals.attestation_id),
                vcAndDiscloseHubProof |-> HubProof(self, proof, publicSignals, packed.value),
                types |-> Types(self),
                log |-> <<Pending("getIdentityCommitmentMerkleRoot", <<>>)>>]]
  /\ UNCHANGED <<self, last, registry>>

\* the root arrives (or the call fails): on to `await rootTimestamps(currentRoot)`
RootReply(c, ok) ==
  /\ calls[c].pc = "awaitRoot"
  /\ LET call == calls[c] IN
     calls' = [calls EXCEPT ![c] =
       IF ~ok THEN Rejected(call, Answer(call.log, Failed("NETWORK_ERROR")), "NETWORK_ERROR")
       ELSE [call EXCEPT !.pc = "awaitTimestamp",
                         !.log = Append(Answer(call.log, Ok(registry.root)),
                                        Pending("rootTimestamps", <<registry.root>>))]
            @@ [currentRoot |-> registry.root]]
  /\ UNCHANGED <<self, last, registry>>

\* a slip: the field list is built after the registry calls, not before them
TimestampReply_BuildsTypesLate(c, ok) ==
  /\ calls[c].pc = "awaitTimestamp"
  /\ LET call == calls[c]
         timestamp == registry.rootTimestamps[call.currentRoot]
         id == BigInt(call.publicSignals.user_identifier)
     IN calls' = [calls EXCEPT ![c] =
          IF ~ok
          THEN Rejected(call, Answer(call.log, Failed("NETWORK_ERROR")), "NETWORK_ERROR")
          ELSE IF ~id.ok
          THEN Rejected(call, Answer(call.log, Ok(timestamp)), "SyntaxError")
          ELSE [call EXCEPT !.pc = "awaitVerifier",
                            !.log = Append(Answer(call.log, Ok(timestamp)),
                                      Pending("verifyAll",
                                        <<timestamp, call.vcAndDiscloseHubProof, Types(self)>>))]
               @@ [timestamp |-> timestamp,
                   user_identifier |->
                     castToUserIdentifier(id.value, self.user_identifier_type)]]
  /\ UNCHANGED <<self, last, registry>>

\* a slip: the timestamp another invocation has fetched is used when there is one
TimestampReply_Cached(c, ok) ==
  /\ calls[c].pc = "awaitTimestamp"
  /\ LET call == calls[c]
         fetched == registry.rootTimestamps[call.currentRoot]
         others == {d \in DOMAIN calls : d # c /\ calls[d].pc = "awaitVerifier"}
         timestamp == IF others = {} THEN fetched
                      ELSE calls[CHOOSE d \in others : TRUE].timestamp
         id == BigInt(call.publicSignals.user_identifier)
     IN calls' = [calls EXCEPT ![c] =
          IF ~ok
          THEN Rejected(call, Answer(call.log, Failed("NETWORK_ERROR")), "NETWORK_ERROR")
          ELSE IF ~id.ok
          THEN Rejected(call, Answer(call.log, Ok(fetched)), "SyntaxError")
          ELSE [call EXCEPT !.pc = "awaitVerifier",
                            !.log = Append(Answer(call.log, Ok(fetched)),
                                      Pending("verifyAll",
                                        <<timestamp, call.vcAndDiscloseHubProof, call.types>>))]
               @@ [timestamp |-> timestamp,
                   user_identifier |->
                     castToUserIdentifier(id.value, self.user_identifier_type)]]
  /\ UNCHANGED <<self, last, registry>>

\* the timestamp arrives (or the call fails): castToUserIdentifier, then on to
\* `await this.verifyAllContract.verifyAll(timestamp, vcAndDiscloseHubProof, types)`
TimestampReply(c, ok) ==
  /\ calls[c].pc = "awaitTimestamp"
  /\ LET call == calls[c]
         timestamp == registry.rootTimestamps[call.currentRoot]
         id == BigInt(call.publicSignals.user_identifier)
     IN calls' = [calls EXCEPT ![c] =
          IF ~ok
          THEN Rejected(call, Answer(call.log, Failed("NETWORK_ERROR")), "NETWORK_ERROR")
          ELSE IF ~id.ok
          THEN Rejected(call, Answer(call.log, Ok(timestamp)), "SyntaxError")
          ELSE [call EXCEPT !.pc = "awaitVerifier",
                            !.log = Append(Answer(call.log, Ok(timestamp)),
                                      Pending("verifyAll",
                                        <<timestamp, call.vcAndDiscloseHubProof, call.types>>))]
               @@ [timestamp |-> timestamp,
                   user_identifier |->
                     castToUserIdentifier(id.value, self.user_identifier_type)]]
  /\ UNCHANGED <<self, last, registry>>

\* a slip: the nationality check is switched off once it has been applied
VerifierReply_ConsumesNationality(c, reply, now) ==
  /\ calls[c].pc = "awaitVerifier"
  /\ LET call == calls[c] IN
     calls' = [calls EXCEPT ![c] =
       [call EXCEPT !.pc = "returned", !.log = Answer(call.log, reply)]
       @@ [result |-> IF reply.status = "error" THEN CaughtResult(self, call, reply.error)
                      ELSE Attestation(self, call, reply.value, now)]]
  /\ self' = [self EXCEPT !.nationality.enabled = FALSE]
  /\ UNCHANGED <<last, registry>>

\* a slip: a verifyAll that throws is called a second time
VerifierReply_Retries(c, reply, now) ==
  /\ calls[c].pc = "awaitVerifier"
  /\ LET call == calls[c] IN
     calls' = [calls EXCEPT ![c] =
       IF reply.status = "error" /\ Len(call.log) = 3
       THEN [call EXCEPT !.log = Append(Answer(call.log, reply),
                                        Pending("verifyAll", call.log[3].args))]
       ELSE [call EXCEPT !.pc = "returned", !.log = Answer(call.log, reply)]
            @@ [result |-> IF reply.status = "error"
                           THEN CaughtResult(self, call, reply.error)
                           ELSE Attestation(self, call, reply.value, now)]]
  /\ UNCHANGED <<self, last, registry>>

\* verifyAll returns or throws: verify() returns its result
VerifierReply(c, reply, now) ==
  /\ calls[c].pc = "awaitVerifier"
  /\ LET call == calls[c] IN
     calls' = [calls EXCEPT ![c] =
       [call EXCEPT !.pc = "returned", !.log = Answer(call.log, reply)]
       @@ [result |-> IF reply.status = "error" THEN CaughtResult(self, call, reply.error)
                      ELSE Attestation(self, call, reply.value, now)]]
  /\ UNCHANGED <<self, last, registry>>

\* verify(proof, publicSignals) run from entry to end on the instance `this`,
\* the contracts answering `replies` in turn: how it ends
Alone(this, proof, publicSignals, replies, now) ==
  LET packed == packForbiddenCountriesList(this.excludedCountries.value)
      id == BigInt(publicSignals.user_identifier)
      call == [proof |-> proof,
               publicSignals |-> publicSignals,
               isValidScope |-> (this.scope = publicSignals.scope),
               isValidAttestationId |->
                 (toString(this.attestationId) = publicSignals.attestation_id),
               user_identifier |-> castToUserIdentifier(id.value, this.user_identifier_type)]
  IN IF ~packed.ok THEN [pc |-> "rejected", error |-> "Invalid country code"]
     ELSE IF replies[1].status = "error" THEN [pc |-> "rejected", error |-> replies[1].error]
     ELSE IF replies[2].status = "error" THEN [pc |-> "rejected", error |-> replies[2].error]
     ELSE IF ~id.ok THEN [pc |-> "rejected", error |-> "SyntaxError"]
     ELSE [pc |-> "returned",
           request |-> <<replies[2].value,
                         HubProof(this, proof, publicSignals, packed.value),
                         Types(this)>>,
           result |-> IF replies[3].status = "error"
                      THEN CaughtResult(this, call, replies[3].error)
                      ELSE Attestation(this, call, replies[3].value, now)]

\* the registry contract gets a new root
RegistryAdvance ==
  /\ registry.root < MaxRoot
  /\ registry' = RegistryAt(registry.root + 1)
  /\ UNCHANGED <<self, last, calls>>

(***************************************************************************)
(* Next-state relation over a universe U, and the specifications.          *)
(***************************************************************************)
\* a setter is called
Configure(U) ==
  \/ \E age \in U.Ages : CallSetMinimumAge(age)
  \/ \E country \in U.Nationalities : CallSetNationality(country)
  \/ \E countries \in U.CountryLists : CallExcludeCountries(countries)
  \/ CallEnablePassportNoOfacCheck
  \/ CallEnableNameAndDobOfacCheck
  \/ CallEnableNameAndYobOfacCheck

\* verify() is called, or a contract answers an invocation
Verification(U) ==
  \/ \E c \in U.Slots, proof \in U.Proofs, publicSignals \in U.PublicSignals :
       VerifyEnter(c, proof, publicSignals)
  \/ \E c \in U.Slots, ok \in U.RootReplies : RootReply(c, ok)
  \/ \E c \in U.Slots, ok \in U.TimestampReplies : TimestampReply(c, ok)
  \/ \E c \in U.Slots, reply \in U.VerifierReplies, now \in Dates :
       VerifierReply(c, reply, now)

Operations(U) == Configure(U) \/ Verification(U)

\* every operation on small inputs, while the registry moves on
Next == Operations(Small) \/ RegistryAdvance

Spec == Init /\ [][Next]_vars

\* every age around the limits of setMinimumAge
AgeUniverse == [Small EXCEPT !.Ages = Ages]

NextAge == Operations(AgeUniverse)

SpecAge == Init /\ [][NextAge]_vars

\* every exclusion list: short ones, one with a bad code, those around the limit
CountryUniverse == [Small EXCEPT !.CountryLists = CountryLists]

NextCountries == Operations(CountryUniverse)

SpecCountries == Init /\ [][NextCountries]_vars

\* every public-signal vector and every reply of verifyAll
OutcomeUniverse ==
  [Small EXCEPT !.Nationalities = Codes,
                !.PublicSignals = PublicSignals,
                !.VerifierReplies = VerifierReplies]

NextOutcome == Operations(OutcomeUniverse)

SpecOutcome == Init /\ [][NextOutcome]_vars

\* MaxCalls invocations side by side while the registry moves on; the policy
\* is set only while no invocation is running
ConcurrentUniverse ==
  [Small EXCEPT !.Slots = 1..MaxCalls,
                !.VerifierReplies = {Thrown, Returned("FRA", TRUE), Returned("USA", TRUE)}]

NoneRunning == \A c \in DOMAIN calls : calls[c].pc \in Settled

NextConcurrent ==
  \/ NoneRunning /\ \E country \in ConcurrentUniverse.Nationalities :
                       CallSetNationality(country)
  \/ Verification(ConcurrentUniverse)
  \/ RegistryAdvance

SpecConcurrent == Init /\ [][NextConcurrent]_vars

(***************************************************************************)
(* What the properties speak of.                                           *)
(***************************************************************************)
InFlight == {"awaitRoot", "awaitTimestamp", "awaitVerifier"}

Slots == DOMAIN calls

\* verify() is entered in slot c in this step
Entered(c) == calls[c].pc \in Settled /\ calls'[c].pc \notin Settled

\* the invocation in slot c has called verifyAll
Submitted(c) == calls[c].pc \in {"awaitVerifier", "returned"}

\* what it passed to verifyAll
Request(c) ==
  LET sent == calls[c].log[Len(calls[c].log)].args IN
  [timestamp |-> sent[1], vcAndDiscloseHubProof |-> sent[2], types |-> sent[3]]

\* it has called this contract function
CalledFn(c, fn) == \E i \in DOMAIN calls[c].log : calls[c].log[i].fn = fn

\* what verifyAll answered
Reply(c) == calls[c].log[Len(calls[c].log)].reply

\* verifyAll is called from slot c in this step
Submits(c) == ~Submitted(c) /\ Submitted(c)'

\* the most recent call of a setter succeeded, with this argument
LastOk(setter, arg) ==
  last[setter].called /\ ~last[setter].threw /\ last[setter].arg = arg

(***************************************************************************)
(* C1.  setMinimumAge(a) throws iff a <= 0 or a > 100, for every integer   *)
(* age a, and a verify() entered after setMinimumAge(a) succeeded, with    *)
(* no setMinimumAge since, passes verifyAll olderThanEnabled = true and    *)
(* olderThan = a in decimal.                                               *)
(***************************************************************************)
Decimal == (1 :> "1") @@ (100 :> "100")

C1_State ==
  /\ \A a \in Ages :
       IsInteger(a) => (setMinimumAge(self, a).threw <=> (a.num <= 0 \/ a.num > 100))
  /\ last["setMinimumAge"].called /\ IsInteger(last["setMinimumAge"].arg) =>
       last["setMinimumAge"].threw
         = (last["setMinimumAge"].arg.num <= 0 \/ last["setMinimumAge"].arg.num > 100)

C1_Step ==
  \A c \in Slots :
    /\ Entered(c) /\ last["setMinimumAge"].called /\ ~last["setMinimumAge"].threw
         /\ IsInteger(last["setMinimumAge"].arg)
         /\ calls'[c].pc = "awaitRoot"
         => /\ calls'[c].vcAndDiscloseHubProof.olderThanEnabled
            /\ calls'[c].vcAndDiscloseHubProof.olderThan
                 = Decimal[last["setMinimumAge"].arg.num]
    /\ Submits(c) => Request(c)'.vcAndDiscloseHubProof = calls[c].vcAndDiscloseHubProof

\* C1: setMinimumAge throws iff a <= 0 or a > 100, and the next requests carry
\* olderThanEnabled = true and the decimal string of the age last set
C1_MinimumAge == []C1_State /\ [][C1_Step]_vars

C1_Witness ==
  \E c \in Slots :
    /\ Submitted(c)
    /\ LastOk("setMinimumAge", Number(100))
    /\ Request(c).vcAndDiscloseHubProof.olderThanEnabled
    /\ Request(c).vcAndDiscloseHubProof.olderThan = "100"

(***************************************************************************)
(* C2.  excludeCountries(L) throws iff L has more than 40 codes; when it   *)
(* succeeds the stored list is L, in order, whatever was stored before;    *)
(* and a verify() entered after it succeeded, with no excludeCountries     *)
(* since, passes verifyAll forbiddenCountriesEnabled = true and the        *)
(* packing of L, which unpacks to L.                                       *)
(***************************************************************************)
C2_State ==
  /\ \A L \in CountryLists :
       LET r == excludeCountries(self, L) IN
       /\ r.threw <=> Len(L) > 40
       /\ ~r.threw => r.this.excludedCountries = [enabled |-> TRUE, value |-> L]
  /\ last["excludeCountries"].called =>
       /\ last["excludeCountries"].threw <=> Len(last["excludeCountries"].arg) > 40
       /\ ~last["excludeCountries"].threw =>
            self.excludedCountries.value = last["excludeCountries"].arg

C2_Step ==
  \A c \in Slots :
    /\ Entered(c) /\ last["excludeCountries"].called /\ ~last["excludeCountries"].threw
         /\ calls'[c].pc = "awaitRoot"
         => /\ calls'[c].vcAndDiscloseHubProof.forbiddenCountriesEnabled
            /\ UnpackCountries(calls'[c].vcAndDiscloseHubProof.forbiddenCountriesListPacked)
                 = last["excludeCountries"].arg
    /\ Submits(c) => Request(c)'.vcAndDiscloseHubProof = calls[c].vcAndDiscloseHubProof

\* C2: excludeCountries throws iff more than 40 codes, stores exactly L, and the
\* next requests carry forbiddenCountriesEnabled = true and the packing of L
C2_ExcludeCountries == []C2_State /\ [][C2_Step]_vars

C2_Witness ==
  \E c \in Slots :
    /\ Submitted(c)
    /\ LastOk("excludeCountries", LongList(40))
    /\ self.excludedCountries.value = LongList(40)
    /\ Request(c).vcAndDiscloseHubProof.forbiddenCountriesEnabled
    /\ UnpackCountries(Request(c).vcAndDiscloseHubProof.forbiddenCountriesListPacked)
         = LongList(40)

(***************************************************************************)
(* C3.  The field list passed to verifyAll is the seven mandatory fields   *)
(* in their order, then older_than iff the age check was enabled when      *)
(* verify() was entered, then passport_no_ofac, name_and_dob_ofac and      *)
(* name_and_yob_ofac, each iff its flag was; nothing else, nothing twice,  *)
(* whatever the nationality and the excluded countries are.                *)
(***************************************************************************)
\* the invocation in slot c got past the packing of the country list
Built(c) == calls[c].pc \in InFlight \cup {"returned"}

FieldOrder ==
  <<"issuing_state", "name", "passport_number", "nationality", "date_of_birth",
    "gender", "expiry_date", "older_than", "passport_no_ofac", "name_and_dob_ofac",
    "name_and_yob_ofac">>

Wanted(this, field) ==
  CASE field = "older_than"        -> this.minimumAge.enabled
    [] field = "passport_no_ofac"  -> this.passportNoOfac
    [] field = "name_and_dob_ofac" -> this.nameAndDobOfac
    [] field = "name_and_yob_ofac" -> this.nameAndYobOfac
    [] OTHER                       -> TRUE

ExpectedTypes(this) ==
  LET keep(field) == Wanted(this, field) IN SelectSeq(FieldOrder, keep)

ScenarioE(this) ==
  /\ this.minimumAge = [enabled |-> TRUE, value |-> "18"]
  /\ this.passportNoOfac /\ ~this.nameAndDobOfac /\ ~this.nameAndYobOfac

ScenarioETypes ==
  <<"issuing_state", "name", "passport_number", "nationality", "date_of_birth",
    "gender", "expiry_date", "older_than", "passport_no_ofac">>

\* C3: the requested fields are the fixed order filtered by the four flags
C3_RequestedFields ==
  \A c \in Slots :
    /\ Built(c) => calls[c].types = ExpectedTypes(calls[c].entry)
    /\ Submitted(c) => Request(c).types = ExpectedTypes(calls[c].entry)
    /\ Submitted(c) /\ ScenarioE(calls[c].entry) => Request(c).types = ScenarioETypes

C3_Witness ==
  \E c \in Slots :
    /\ Submitted(c)
    /\ ScenarioE(calls[c].entry)
    /\ calls[c].entry.nationality.enabled
    /\ calls[c].entry.excludedCountries.enabled
    /\ Len(Request(c).types) = 9

(***************************************************************************)
(* C4.  When verifyAll returns, isValid is the conjunction of the four     *)
(* reported checks; isValidScope says whether the configured scope equals  *)
(* the scope signal, isValidAttestationId whether the attestation-id       *)
(* signal is the string "1", isValidProof is verifyAll's validity flag.    *)
(* So a scope mismatch gives isValidScope = isValid = false, and four true *)
(* checks give isValid = true.                                             *)
(***************************************************************************)
\* verify() in slot c returned after verifyAll returned / threw
ReturnedAfterReply(c) == calls[c].pc = "returned" /\ Reply(c).status = "ok"

ReturnedAfterThrow(c) == calls[c].pc = "returned" /\ Reply(c).status = "error"

C4_OverallValidity ==
  \A c \in Slots : ReturnedAfterReply(c) =>
    LET call == calls[c]
        checks == call.result.isValidDetails
    IN /\ call.result.isValid =
            (checks.isValidScope /\ checks.isValidAttestationId
               /\ checks.isValidProof /\ checks.isValidNationality)
       /\ checks.isValidScope = (call.entry.scope = call.publicSignals.scope)
       /\ checks.isValidAttestationId = (call.publicSignals.attestation_id = "1")
       /\ checks.isValidProof = Reply(c).value[2]
       /\ call.entry.scope # call.publicSignals.scope
            => ~checks.isValidScope /\ ~call.result.isValid

\* scenario A: no optional check, matching signals, a valid proof
C4_Witness ==
  \E c \in Slots :
    /\ ReturnedAfterReply(c)
    /\ calls[c].entry = SelfBackendVerifier(TheScope, TheEndpoint, "uuid")
    /\ self = calls[c].entry
    /\ calls[c].result.isValidDetails =
         [isValidScope |-> TRUE, isValidAttestationId |-> TRUE, isValidProof |-> TRUE,
          isValidNationality |-> TRUE]
    /\ calls[c].result.isValid

(***************************************************************************)
(* C5.  When verifyAll throws, verify() still returns: isValid and the     *)
(* four checks are false even if scope and attestation id match, the       *)
(* credential subject is empty, error is what verifyAll threw, userId,     *)
(* application and nullifier come from the signals and the configured      *)
(* scope, and proof and signals are the caller's.                          *)
(***************************************************************************)
C5_VerifierThrows ==
  \A c \in Slots :
    /\ calls[c].pc = "rejected" => ~CalledFn(c, "verifyAll")
    /\ ReturnedAfterThrow(c) =>
         LET call == calls[c] IN
         /\ ~call.result.isValid
         /\ call.result.isValidDetails =
              [isValidScope |-> FALSE, isValidAttestationId |-> FALSE,
               isValidProof |-> FALSE, isValidNationality |-> FALSE]
         /\ DOMAIN call.result.credentialSubject = {}
         /\ call.result.error = Reply(c).error
         /\ call.result.userId = "uuid:" \o call.publicSignals.user_identifier
         /\ call.result.application = hashEndpointWithScope(TheEndpoint, TheScope)
         /\ call.result.nullifier = call.publicSignals.nullifier
         /\ call.result.proof.value =
              [proof |-> call.proof, publicSignals |-> call.publicSignals]

C5_Witness ==
  \E c \in Slots :
    /\ ReturnedAfterThrow(c)
    /\ calls[c].isValidScope /\ calls[c].isValidAttestationId
    /\ ~calls[c].result.isValidDetails.isValidScope
    /\ calls[c].result.error = "CALL_EXCEPTION"

(***************************************************************************)
(* C6.  When verifyAll returns: with the nationality check enabled,        *)
(* isValidNationality says whether the decoded nationality is the          *)
(* configured one (decoded USA against configured FRA: false, and isValid  *)
(* false); with setNationality never called it is true whatever was        *)
(* decoded.  The configuration is the one in force when verifyAll returns. *)
(***************************************************************************)
\* verifyAll returns to slot c in this step
Returns(c) ==
  calls[c].pc = "awaitVerifier" /\ calls'[c].pc = "returned" /\ Reply(c)'.status = "ok"

C6_Step ==
  \A c \in Slots : Returns(c) =>
    LET decoded == Reply(c)'.value[1].nationality
        checks  == calls'[c].result.isValidDetails
    IN /\ self.nationality.enabled
            => checks.isValidNationality = (decoded = self.nationality.value)
       /\ self.nationality.enabled /\ decoded = "USA" /\ self.nationality.value = "FRA"
            => ~checks.isValidNationality /\ ~calls'[c].result.isValid
       /\ ~last["setNationality"].called
            => ~self.nationality.enabled /\ checks.isValidNationality

\* C6: isValidNationality compares decoded and configured nationality when the
\* check is enabled, and is true when it never was
C6_Nationality == [][C6_Step]_vars

\* scenario C
C6_Witness ==
  \E c \in Slots :
    /\ ReturnedAfterReply(c)
    /\ self.nationality = [enabled |-> TRUE, value |-> "FRA"]
    /\ calls[c].entry.nationality = self.nationality
    /\ Reply(c).value[1].nationality = "USA"
    /\ Reply(c).value[2]
    /\ ~calls[c].result.isValidDetails.isValidNationality
    /\ ~calls[c].result.isValid

(***************************************************************************)
(* C7.  When the packing of the country list, the root fetch or the        *)
(* timestamp fetch fails, verify() throws: the invocation has no result    *)
(* and never calls verifyAll.                                              *)
(***************************************************************************)
\* the invocation in slot c made a registry call that failed
RegistryFailed(c) ==
  \E i \in DOMAIN calls[c].log :
    /\ calls[c].log[i].fn \in {"getIdentityCommitmentMerkleRoot", "rootTimestamps"}
    /\ calls[c].log[i].reply.status = "error"

\* the country list stored when it was entered cannot be packed
PackingFailed(c) ==
  \E i \in DOMAIN calls[c].entry.excludedCountries.value :
    Len(calls[c].entry.excludedCountries.value[i]) # 3

\* C7: a packing or registry failure rejects the invocation: no result, no
\* verifyAll call
C7_UpstreamFailure ==
  \A c \in Slots : calls[c].pc # "idle" =>
    /\ PackingFailed(c) => calls[c].log = <<>>
    /\ PackingFailed(c) \/ RegistryFailed(c) =>
         /\ calls[c].pc = "rejected"
         /\ "result" \notin DOMAIN calls[c]
         /\ ~CalledFn(c, "verifyAll")

C7_Witness ==
  \E c \in Slots :
    /\ calls[c].pc = "rejected"
    /\ PackingFailed(c)
    /\ calls[c].entry.excludedCountries = [enabled |-> TRUE, value |-> <<"FRA", "FR">>]

(***************************************************************************)
(* C8.  A setter called while verify() is in flight does not change the    *)
(* invocation's result: the request and the result, the nationality check  *)
(* included, use the configuration as it was when verify() was entered.    *)
(***************************************************************************)
C8_SnapshotAtEntry ==
  \A c \in Slots :
    /\ Submitted(c) =>
         LET sent == Request(c).vcAndDiscloseHubProof
             this == calls[c].entry
         IN /\ sent.olderThanEnabled = this.minimumAge.enabled
            /\ sent.olderThan = this.minimumAge.value
            /\ sent.forbiddenCountriesEnabled = this.excludedCountries.enabled
            /\ UnpackCountries(sent.forbiddenCountriesListPacked)
                 = this.excludedCountries.value
            /\ sent.ofacEnabled
                 = <<this.passportNoOfac, this.nameAndDobOfac, this.nameAndYobOfac>>
    /\ ReturnedAfterReply(c) =>
         calls[c].result.isValidDetails.isValidNationality =
           (calls[c].entry.nationality.enabled
              => Reply(c).value[1].nationality = calls[c].entry.nationality.value)

(***************************************************************************)
(* C9.  As claimed: the credential subject is empty whenever verifyAll     *)
(* throws or reports the proof invalid.                                    *)
(***************************************************************************)
C9_OnlyOnStructuralSuccess ==
  \A c \in Slots :
    calls[c].pc = "returned" /\ (Reply(c).status = "error" \/ ~Reply(c).value[2])
      => DOMAIN calls[c].result.credentialSubject = {}

(***************************************************************************)
(* C9, amended.  The credential subject is empty exactly when verifyAll    *)
(* throws; when verifyAll returns, valid proof or not, it holds the merkle *)
(* root and attestation id of the inputs and the fields verifyAll decoded. *)
(***************************************************************************)
C9_EmptyIffThrown ==
  \A c \in Slots : calls[c].pc = "returned" =>
    LET subject == calls[c].result.credentialSubject IN
    /\ Reply(c).status = "error" <=> DOMAIN subject = {}
    /\ Reply(c).status = "ok" =>
         /\ subject.merkle_root = calls[c].publicSignals.merkle_root
         /\ subject.attestation_id = "1"
         /\ subject.nationality = Reply(c).value[1].nationality
         /\ subject.passport_no_ofac = (Reply(c).value[1].passport_no_ofac = 1)

C9_Witness ==
  \E c \in Slots :
    /\ ReturnedAfterReply(c)
    /\ ~Reply(c).value[2]
    /\ ~calls[c].result.isValidDetails.isValidProof
    /\ calls[c].result.credentialSubject.merkle_root = "4242"

(***************************************************************************)
(* C10.  Calling an OFAC setter a second time changes nothing; each of     *)
(* the three sets its own flag and leaves the other two alone; and the     *)
(* ofacEnabled triple of a request is [passportNo, nameAndDob, nameAndYob] *)
(* as the flags were when verify() was entered.                            *)
(***************************************************************************)
OfacFlags(this) == <<this.passportNoOfac, this.nameAndDobOfac, this.nameAndYobOfac>>

\* C10: the OFAC setters are idempotent and independent, and the request
\* carries the three flags in their fixed positions
C10_OfacSetters ==
  LET p == enablePassportNoOfacCheck(self)
      d == enableNameAndDobOfacCheck(self)
      y == enableNameAndYobOfacCheck(self)
  IN
  /\ ~p.threw /\ ~d.threw /\ ~y.threw
  /\ enablePassportNoOfacCheck(p.this) = p
  /\ enableNameAndDobOfacCheck(d.this) = d
  /\ enableNameAndYobOfacCheck(y.this) = y
  /\ OfacFlags(p.this) = <<TRUE, self.nameAndDobOfac, self.nameAndYobOfac>>
  /\ OfacFlags(d.this) = <<self.passportNoOfac, TRUE, self.nameAndYobOfac>>
  /\ OfacFlags(y.this) = <<self.passportNoOfac, self.nameAndDobOfac, TRUE>>
  /\ last["enablePassportNoOfacCheck"].called <=> self.passportNoOfac
  /\ last["enableNameAndDobOfacCheck"].called <=> self.nameAndDobOfac
  /\ last["enableNameAndYobOfacCheck"].called <=> self.nameAndYobOfac
  /\ \A c \in Slots :
       Submitted(c) =>
         Request(c).vcAndDiscloseHubProof.ofacEnabled = OfacFlags(calls[c].entry)

C10_Witness ==
  \E c \in Slots :
    /\ Submitted(c)
    /\ \A s \in {"enablePassportNoOfacCheck", "enableNameAndDobOfacCheck",
                 "enableNameAndYobOfacCheck"} : last[s].called
    /\ Request(c).vcAndDiscloseHubProof.ofacEnabled = <<TRUE, TRUE, TRUE>>

(***************************************************************************)
(* C11.  Whatever setters and verify() calls have run, failing ones        *)
(* included: when the age check is enabled the stored age is the decimal   *)
(* string of an integer in 1..100, and at most 40 countries are stored.    *)
(* setMinimumAge compares a number, not an integer: 0.5 and NaN pass both  *)
(* comparisons and are stored.  The countries half holds by itself.        *)
(***************************************************************************)
DenotesIntegerInRange(s) == \E n \in 1..100 : toString(n) = s

C11_ExcludedWithinLimit == Len(self.excludedCountries.value) <= 40

\* C11: an enabled age check stores an integer in 1..100, and the stored
\* exclusion list has at most 40 entries
C11_StoredWithinLimits ==
  /\ self.minimumAge.enabled => DenotesIntegerInRange(self.minimumAge.value)
  /\ C11_ExcludedWithinLimit

(***************************************************************************)
(* C12.  One invocation calls getIdentityCommitmentMerkleRoot, then        *)
(* rootTimestamps with the root it got, then verifyAll, each once and in   *)
(* this order; a call is made only when the calls before it succeeded;     *)
(* and when verifyAll throws the invocation returns the failed result      *)
(* without calling again.                                                  *)
(***************************************************************************)
ExternalCalls == <<"getIdentityCommitmentMerkleRoot", "rootTimestamps", "verifyAll">>

\* the invocation that last ran in slot c
Invoked(c) == calls[c].pc # "idle"

\* how many contract calls an invocation has made when it awaits at pc
CallsMadeAt(pc) ==
  CASE pc = "awaitRoot" -> 1
    [] pc = "awaitTimestamp" -> 2
    [] pc \in {"awaitVerifier", "returned"} -> 3

C12_State ==
  \A c \in Slots : Invoked(c) =>
    LET log == calls[c].log IN
    /\ Len(log) <= 3
    /\ \A i \in DOMAIN log : log[i].fn = ExternalCalls[i]
    /\ \A i \in DOMAIN log :
         /\ i < Len(log) => log[i].reply.status = "ok"
         /\ log[i].reply.status = "pending" <=> (i = Len(log) /\ calls[c].pc \in InFlight)
    /\ Len(log) >= 1 => log[1].args = <<>>
    /\ Len(log) >= 2 => log[2].args = <<log[1].reply.value>>
    /\ calls[c].pc # "rejected" => Len(log) = CallsMadeAt(calls[c].pc)
    /\ calls[c].pc = "rejected" /\ log # <<>> =>
         Len(log) < 3 /\ log[Len(log)].reply.status \in {"ok", "error"}
    /\ Len(log) = 3 /\ log[3].reply.status = "error" =>
         /\ calls[c].pc = "returned"
         /\ ~calls[c].result.isValid
         /\ calls[c].result.error = log[3].reply.error

\* while an invocation runs, its log only grows, one call at a time, and a call
\* that was answered stays as it was answered
C12_Step ==
  \A c \in Slots : calls[c].pc \in InFlight =>
    LET log == calls[c].log
        after == calls'[c].log
    IN
    /\ Len(log) <= Len(after) /\ Len(after) <= Len(log) + 1
    /\ \A i \in DOMAIN log :
         /\ after[i].fn = log[i].fn /\ after[i].args = log[i].args
         /\ log[i].reply.status # "pending" => after[i] = log[i]

\* C12: root, then timestamp of that root, then verifyAll, each once, each only
\* after the ones before succeeded, and no second verifyAll after a failed one
C12_CallOrder == []C12_State /\ [][C12_Step]_vars

C12_Witness ==
  \E c \in Slots :
    /\ ReturnedAfterThrow(c)
    /\ Len(calls[c].log) = 3
    /\ calls[c].log[2].args = <<calls[c].log[1].reply.value>>
    /\ calls[c].log[1].reply.value = MaxRoot
    /\ ~calls[c].result.isValid

(***************************************************************************)
(* C13.  Nothing the contracts answer is kept from one invocation to       *)
(* another: the root an invocation gets is the registry's root at that     *)
(* moment, the timestamp it gets is the registry's timestamp of that root, *)
(* and this timestamp is the one it passes to verifyAll, also when other   *)
(* invocations run on the instance and the registry moves on meanwhile.    *)
(* The field targetRootTimestamp is never written.                         *)
(***************************************************************************)
\* what the registry answered to the invocation in slot c
FetchedRoot(c) == calls[c].log[1].reply.value

FetchedTimestamp(c) == calls[c].log[2].reply.value

C13_State ==
  /\ self.targetRootTimestamp = [enabled |-> FALSE, value |-> 0]
  /\ \A c \in Slots : Submitted(c) =>
       /\ calls[c].log[2].args = <<FetchedRoot(c)>>
       /\ FetchedTimestamp(c) = registry.rootTimestamps[FetchedRoot(c)]
       /\ Request(c).timestamp = FetchedTimestamp(c)

C13_Step ==
  \A c \in Slots :
    /\ calls[c].pc = "awaitRoot" /\ calls'[c].pc = "awaitTimestamp" =>
         FetchedRoot(c)' = registry.root
    /\ Submits(c) =>
         /\ FetchedTimestamp(c)' = registry.rootTimestamps[FetchedRoot(c)]
         /\ Request(c)'.timestamp = registry.rootTimestamps[FetchedRoot(c)]

\* C13: the timestamp passed to verifyAll is the one the registry returned to
\* this invocation for the root it returned to this invocation
C13_NoCaching == []C13_State /\ [][C13_Step]_vars

\* two invocations await verifyAll, the first with the old root's timestamp
C13_Witness ==
  \E c, d \in Slots :
    /\ calls[c].pc = "awaitVerifier" /\ calls[d].pc = "awaitVerifier"
    /\ FetchedRoot(c) = 1 /\ FetchedRoot(d) = MaxRoot
    /\ Request(c).timestamp = 1001
    /\ Request(d).timestamp = 1000 + MaxRoot

(***************************************************************************)
(* C14.  No step of verify() changes the policy: scope, attestationId,     *)
(* minimumAge, nationality, excludedCountries and the three OFAC flags     *)
(* are after the step what they were before it, whether the invocation     *)
(* goes on, returns, returns the failed result or is rejected.  So, when   *)
(* no setter runs while invocations are running, each of several           *)
(* interleaved invocations ends as it would by itself with the same        *)
(* replies: same request, same result or same error.                       *)
(***************************************************************************)
Policy(this) ==
  [scope             |-> this.scope,
   attestationId     |-> this.attestationId,
   minimumAge        |-> this.minimumAge,
   nationality       |-> this.nationality,
   excludedCountries |-> this.excludedCountries,
   passportNoOfac    |-> this.passportNoOfac,
   nameAndDobOfac    |-> this.nameAndDobOfac,
   nameAndYobOfac    |-> this.nameAndYobOfac]

\* the replies the invocation in slot c has received, in order
Replies(c) == [i \in DOMAIN calls[c].log |-> calls[c].log[i].reply]

C14_State ==
  \A c \in Slots :
    /\ calls[c].pc \in InFlight => Policy(self) = Policy(calls[c].entry)
    /\ calls[c].pc \in {"returned", "rejected"} =>
         \E now \in Dates :
           LET alone == Alone(calls[c].entry, calls[c].proof, calls[c].publicSignals,
                              Replies(c), now)
           IN /\ calls[c].pc = alone.pc
              /\ calls[c].pc = "rejected" => calls[c].error = alone.error
              /\ calls[c].pc = "returned" =>
                   /\ calls[c].log[3].args = alone.request
                   /\ calls[c].result = alone.result

C14_Step ==
  \A c \in Slots : calls'[c] # calls[c] => Policy(self') = Policy(self)

\* C14: verify() leaves the policy as it is on every path, and interleaved
\* invocations under a stable policy end as each would alone
C14_VerifyReadsOnly == []C14_State /\ [][C14_Step]_vars

\* d fetched the old root and still awaits verifyAll; c fetched the new root
\* later and has returned already, failing the nationality check
C14_Witness ==
  \E c, d \in Slots :
    /\ calls[d].pc = "awaitVerifier" /\ FetchedRoot(d) = 1
    /\ calls[c].pc = "returned" /\ FetchedRoot(c) = MaxRoot
    /\ calls[c].entry.nationality = [enabled |-> TRUE, value |-> "FRA"]
    /\ Reply(c).status = "ok" /\ Reply(c).value[1].nationality = "USA"
    /\ ~calls[c].result.isValid
    /\ Policy(self) = Policy(calls[c].entry)

(***************************************************************************)
(* C15.  The scope is the hash made by the constructor and the attestation *)
(* id is 1, in every state; every result, the failed one of a throwing     *)
(* verifyAll included, has this hash as its application; and the           *)
(* attestation id the public signals are compared with is "1".             *)
(***************************************************************************)
ConstructedScope == hashEndpointWithScope(TheEndpoint, TheScope)

\* C15: scope and attestation id never change, and every result carries the
\* constructed scope as its application
C15_ScopeFixed ==
  /\ self.scope = ConstructedScope
  /\ self.attestationId = 1
  /\ \A c \in Slots :
       /\ Invoked(c) => calls[c].entry.scope = ConstructedScope
       /\ Built(c) =>
            /\ calls[c].isValidScope = (calls[c].publicSignals.scope = ConstructedScope)
            /\ calls[c].isValidAttestationId = (calls[c].publicSignals.attestation_id = "1")
       /\ calls[c].pc = "returned" => calls[c].result.application = ConstructedScope
       /\ ReturnedAfterReply(c) => calls[c].result.credentialSubject.attestation_id = "1"

\* verifyAll threw for signals of another scope, after setters were called
C15_Witness ==
  \E c \in Slots :
    /\ ReturnedAfterThrow(c)
    /\ calls[c].publicSignals.scope # ConstructedScope
    /\ calls[c].result.application = ConstructedScope
    /\ \A s \in Setters : last[s].called

(***************************************************************************)
(* C16.  A check that is enabled stays enabled: no step, and no setter     *)
(* call whatever its argument, refused or not, takes minimumAge.enabled,   *)
(* nationality.enabled, excludedCountries.enabled or an OFAC flag from     *)
(* true to false.                                                          *)
(***************************************************************************)
EnabledChecks(this) ==
  {check \in {"minimumAge", "nationality", "excludedCountries"} : this[check].enabled}
    \cup {flag \in {"passportNoOfac", "nameAndDobOfac", "nameAndYobOfac"} : this[flag]}

C16_State ==
  LET on == EnabledChecks(self) IN
  /\ \A age \in Ages : on \subseteq EnabledChecks(setMinimumAge(self, age).this)
  /\ \A country \in Codes : on \subseteq EnabledChecks(setNationality(self, country).this)
  /\ \A countries \in CountryLists :
       on \subseteq EnabledChecks(excludeCountries(self, countries).this)
  /\ on \subseteq EnabledChecks(enablePassportNoOfacCheck(self).this)
  /\ on \subseteq EnabledChecks(enableNameAndDobOfacCheck(self).this)
  /\ on \subseteq EnabledChecks(enableNameAndYobOfacCheck(self).this)

C16_Step == EnabledChecks(self) \subseteq EnabledChecks(self')

\* C16: an enabled check is never disabled, by any operation or refused setter
C16_NeverDisabled == []C16_State /\ [][C16_Step]_vars

\* every check is on, and the last setMinimumAge was refused
C16_Witness ==
  /\ Cardinality(EnabledChecks(self)) = 6
  /\ last["setMinimumAge"].called /\ last["setMinimumAge"].threw
  /\ \E c \in Slots : calls[c].pc = "returned"

(***************************************************************************)
(* C17.  The proof passed to verifyAll has the caller's a and c, and the   *)
(* caller's b with the two entries of each row exchanged, the rows in      *)
(* place; exchanging twice gives b back; and the result echoes the proof   *)
(* and the public signals as the caller gave them.                         *)
(***************************************************************************)
\* b with the entries of each row exchanged
Reordered(b) == [i \in 1..2 |-> [j \in 1..2 |-> b[i][3 - j]]]

\* C17: a and c unchanged, the entries of each row of b exchanged, the
\* exchange its own inverse, and the caller's proof and signals in the result
C17_ProofReordering ==
  /\ \A proof \in Proofs :
       LET once  == HubProof(self, proof, GoodSignals, "").vcAndDiscloseProof
           twice == HubProof(self, once, GoodSignals, "").vcAndDiscloseProof
       IN /\ once.b = Reordered(proof.b)
          /\ once.b # proof.b
          /\ twice.b = proof.b
          /\ twice.a = proof.a /\ twice.c = proof.c
  /\ \A c \in Slots :
       /\ Submitted(c) =>
            LET sent == Request(c).vcAndDiscloseHubProof.vcAndDiscloseProof IN
            /\ sent.a = calls[c].proof.a
            /\ sent.c = calls[c].proof.c
            /\ sent.b = Reordered(calls[c].proof.b)
            /\ sent.pubSignals = calls[c].publicSignals
       /\ calls[c].pc = "returned" =>
            /\ calls[c].result.proof.value.proof = calls[c].proof
            /\ calls[c].result.proof.value.publicSignals = calls[c].publicSignals

C17_Witness ==
  \E c \in Slots :
    /\ calls[c].pc = "returned"
    /\ calls[c].proof.b = << <<3, 4>>, <<5, 6>> >>
    /\ Request(c).vcAndDiscloseHubProof.vcAndDiscloseProof.b = << <<4, 3>>, <<6, 5>> >>
    /\ calls[c].result.proof.value.proof.b = << <<3, 4>>, <<5, 6>> >>

(***************************************************************************)
(* C18.  A refused setter call changes nothing: setMinimumAge(a) with      *)
(* a <= 0 or a > 100 and excludeCountries with more than 40 codes throw    *)
(* from the call itself and leave every field of the instance, the stored  *)
(* age or list and its enabled flag included, as it was; so a verify()     *)
(* entered afterwards sees the configuration of before the call, and no    *)
(* verify() fails with a configuration error.                              *)
(***************************************************************************)
Refused(r, this) == r.threw /\ r.this = this

C18_State ==
  /\ \A age \in Ages :
       IsInteger(age) /\ (age.num <= 0 \/ age.num > 100) =>
         Refused(setMinimumAge(self, age), self)
  /\ \A countries \in CountryLists :
       Len(countries) > 40 => Refused(excludeCountries(self, countries), self)
  /\ \A c \in Slots :
       calls[c].pc = "rejected" =>
         calls[c].error \in {"Invalid country code", "NETWORK_ERROR", "SyntaxError"}

\* the step of a refused call, and an entry to verify() after one
C18_Step ==
  /\ \A s \in Setters :
       last'[s] # last[s] /\ last'[s].threw => self' = self /\ calls' = calls
  /\ \A c \in Slots :
       Entered(c) => calls'[c].entry = self

\* C18: a refused setMinimumAge or excludeCountries throws at the call and
\* leaves the whole configuration as it was
C18_RefusedSetter == []C18_State /\ [][C18_Step]_vars

\* 41 codes were refused; the list stored before is the one verify() sends
C18_Witness ==
  \E c \in Slots :
    /\ last["excludeCountries"].called /\ last["excludeCountries"].threw
    /\ Len(last["excludeCountries"].arg) = 41
    /\ self.excludedCountries = [enabled |-> TRUE, value |-> <<"FRA">>]
    /\ Submitted(c) /\ calls[c].entry = self
    /\ UnpackCountries(Request(c).vcAndDiscloseHubProof.forbiddenCountriesListPacked)
         = <<"FRA">>

(***************************************************************************)
(* C19.  Whatever setters run while verify() awaits, the request it        *)
(* passes to verifyAll agrees with itself: older_than is among the fields  *)
(* asked for iff olderThanEnabled is true in the same request, and         *)
(* passport_no_ofac, name_and_dob_ofac, name_and_yob_ofac are among them   *)
(* iff the first, second, third entry of its ofacEnabled is true.          *)
(***************************************************************************)
Asks(types, field) == \E i \in DOMAIN types : types[i] = field

\* C19: in every request passed to verifyAll the flags and the field list agree
C19_RequestConsistent ==
  \A c \in Slots : Submitted(c) =>
    LET flags == Request(c).vcAndDiscloseHubProof
        types == Request(c).types
    IN /\ Asks(types, "older_than") <=> flags.olderThanEnabled
       /\ Asks(types, "passport_no_ofac") <=> flags.ofacEnabled[1]
       /\ Asks(types, "name_and_dob_ofac") <=> flags.ofacEnabled[2]
       /\ Asks(types, "name_and_yob_ofac") <=> flags.ofacEnabled[3]

\* setters ran while the invocation was awaiting: the instance has the age
\* check and two OFAC flags on, the request was built with one OFAC flag only
C19_Witness ==
  \E c \in Slots :
    /\ calls[c].pc = "awaitVerifier"
    /\ self.minimumAge.enabled /\ self.passportNoOfac /\ self.nameAndYobOfac
    /\ ~Request(c).vcAndDiscloseHubProof.olderThanEnabled
    /\ Request(c).vcAndDiscloseHubProof.ofacEnabled = <<FALSE, FALSE, TRUE>>
    /\ ~Asks(Request(c).types, "older_than")
    /\ Asks(Request(c).types, "name_and_yob_ofac")
    /\ Len(Request(c).types) = 8

(***************************************************************************)
(* C20.  A setter call that succeeds changes its own field and no other:   *)
(* setMinimumAge minimumAge, setNationality nationality, excludeCountries  *)
(* excludedCountries, each OFAC setter its own flag; scope and             *)
(* attestationId are changed by none.                                      *)
(***************************************************************************)
OwnField ==
  [setMinimumAge             |-> "minimumAge",
   setNationality            |-> "nationality",
   excludeCountries          |-> "excludedCountries",
   enablePassportNoOfacCheck |-> "passportNoOfac",
   enableNameAndDobOfacCheck |-> "nameAndDobOfac",
   enableNameAndYobOfacCheck |-> "nameAndYobOfac"]

\* `after` is `this` but for the one field
OnlyChanges(this, after, field) ==
  /\ DOMAIN after = DOMAIN this
  /\ \A f \in DOMAIN this : f # field => after[f] = this[f]

C20_State ==
  /\ {OwnField[s] : s \in Setters} \cap {"scope", "attestationId"} = {}
  /\ \A age \in Ages :
       OnlyChanges(self, setMinimumAge(self, age).this, "minimumAge")
  /\ \A country \in Codes :
       OnlyChanges(self, setNationality(self, country).this, "nationality")
  /\ \A countries \in CountryLists :
       OnlyChanges(self, excludeCountries(self, countries).this, "excludedCountries")
  /\ OnlyChanges(self, enablePassportNoOfacCheck(self).this, "passportNoOfac")
  /\ OnlyChanges(self, enableNameAndDobOfacCheck(self).this, "nameAndDobOfac")
  /\ OnlyChanges(self, enableNameAndYobOfacCheck(self).this, "nameAndYobOfac")

C20_Step ==
  \A s \in Setters :
    last'[s] # last[s] /\ ~last'[s].threw => OnlyChanges(self, self', OwnField[s])

\* C20: a successful setter changes its own field only, never scope or
\* attestationId
C20_OwnFieldOnly == []C20_State /\ [][C20_Step]_vars

\* every setter has succeeded, and every field holds what its setter stored
C20_Witness ==
  /\ \A s \in Setters : last[s].called /\ ~last[s].threw
  /\ self.minimumAge = [enabled |-> TRUE, value |-> "18"]
  /\ self.nationality = [enabled |-> TRUE, value |-> "FRA"]
  /\ self.excludedCountries = [enabled |-> TRUE, value |-> <<"FRA">>]
  /\ self.passportNoOfac /\ self.nameAndDobOfac /\ self.nameAndYobOfac
  /\ self.scope = ConstructedScope /\ self.attestationId = 1

====
